---- MODULE Spec2Model ----
(***************************************************************************)
(* Model of the anymind_pos payment service: the payment method registry   *)
(* and validate_payment / calculate_payment (app/payment_methods.py), and  *)
(* the make_payment mutation and sales_report query (app/schema.py) acting *)
(* on the payments table (app/models.py).                                  *)
(*                                                                         *)
(* Representation.                                                         *)
(*  - A finite Decimal is an integer number of hundredths: prices are in   *)
(*    cents, modifiers and points rates in units of 0.01.  The product of  *)
(*    a price and a modifier (or rate) is then in units of 0.0001.         *)
(*  - A Python string that is inspected character by character (the       *)
(*    values of the additional fields) is a sequence of characters; a      *)
(*    character is a one-letter string, and "sup2" stands for U+00B2       *)
(*    SUPERSCRIPT TWO.  Other strings are TLA+ strings.                    *)
(*  - An optional value is None (the empty tuple) or Some(v) (<<v>>).      *)
(*  - A dict over the five additional field names is a record that maps    *)
(*    every field name to an optional value: None is "key absent".         *)
(***************************************************************************)
EXTENDS Integers, Sequences, FiniteSets, TLC

VARIABLES store, req, out, call, procs

vars == <<store, req, out, call, procs>>

None == << >>

Some(v) == <<v>>

(***************************************************************************)
(* Bounds of the model.                                                    *)
(***************************************************************************)
\* modifiers range from ModMargin hundredths below the least min_modifier
\* to ModMargin hundredths above the greatest max_modifier
ModMargin == 2

\* prices -2 .. MaxSmallCents cents are enumerated exhaustively
MaxSmallCents == 7

\* longest last4 string enumerated character by character
MaxLast4Len == 5

\* most records the store holds
MaxStore == 2

(***************************************************************************)
(* Characters and strings.                                                 *)
(***************************************************************************)
AsciiDigits == {"0", "1", "2", "3", "4", "5", "6", "7", "8", "9"}

\* characters c outside 0-9 with c.isdigit() true: U+00B2 is of Unicode
\* category No with Numeric_Type=Digit, it is not a decimal digit
OtherDigits == {"sup2"}

\* str.isdigit() on one character
IsDigitChar(c) == c \in AsciiDigits \cup OtherDigits

\* str.isdigit(): true iff the string is non-empty and all characters are digits
isdigit(s) == Len(s) > 0 /\ \A i \in 1..Len(s) : IsDigitChar(s[i])

YAMATO == <<"Y", "A", "M", "A", "T", "O">>

SAGAWA == <<"S", "A", "G", "A", "W", "A">>

UPS == <<"U", "P", "S">>

\* str.upper() on the method codes the model sends
upper(s) ==
  CASE s = "cash" -> "CASH"
    [] s = "Cash" -> "CASH"
    [] s = "cash_on_delivery" -> "CASH_ON_DELIVERY"
    [] s = "visa" -> "VISA"
    [] s = "Visa" -> "VISA"
    [] s = "mastercard" -> "MASTERCARD"
    [] s = "amex" -> "AMEX"
    [] s = "jcb" -> "JCB"
    [] s = "line_pay" -> "LINE_PAY"
    [] s = "paypay" -> "PAYPAY"
    [] s = "points" -> "POINTS"
    [] s = "grab_pay" -> "GRAB_PAY"
    [] s = "bank_transfer" -> "BANK_TRANSFER"
    [] s = "cheque" -> "CHEQUE"
    [] s = "bitcoin" -> "BITCOIN"
    [] OTHER -> s

(***************************************************************************)
(* The registry (payment_methods.py:13-87).                                *)
(***************************************************************************)
PaymentMethodConfig(min, max, rate, required, allowed) ==
  [min_modifier |-> min, max_modifier |-> max, points_rate |-> rate,
   required_fields |-> required, allowed_values |-> allowed]

\* allowed_values is a sequence of <<field, allowed list>> in dict order;
\* None and the empty dict are both the empty sequence (both are falsy)
PAYMENT_METHODS ==
  [CASH |-> PaymentMethodConfig(90, 100, 5, << >>, << >>),
   CASH_ON_DELIVERY |-> PaymentMethodConfig(100, 102, 5, <<"courier">>,
                          << <<"courier", <<YAMATO, SAGAWA>> >> >>),
   VISA |-> PaymentMethodConfig(95, 100, 3, <<"last4">>, << >>),
   MASTERCARD |-> PaymentMethodConfig(95, 100, 3, <<"last4">>, << >>),
   AMEX |-> PaymentMethodConfig(98, 101, 2, <<"last4">>, << >>),
   JCB |-> PaymentMethodConfig(95, 100, 5, <<"last4">>, << >>),
   LINE_PAY |-> PaymentMethodConfig(100, 100, 1, << >>, << >>),
   PAYPAY |-> PaymentMethodConfig(100, 100, 1, << >>, << >>),
   POINTS |-> PaymentMethodConfig(100, 100, 0, << >>, << >>),
   GRAB_PAY |-> PaymentMethodConfig(100, 100, 1, << >>, << >>),
   BANK_TRANSFER |-> PaymentMethodConfig(100, 100, 0, <<"bank", "accountNumber">>, << >>),
   CHEQUE |-> PaymentMethodConfig(90, 100, 0, <<"bank", "chequeNumber">>, << >>)]

MethodKeys == DOMAIN PAYMENT_METHODS

FieldNames == {"last4", "courier", "bank", "accountNumber", "chequeNumber"}

\* the dict {} (no key present)
EmptyDict == [f \in FieldNames |-> None]

(***************************************************************************)
(* Results of validate_payment: a returned (is_valid, error) pair or a     *)
(* raised exception.                                                       *)
(***************************************************************************)
\* an error message is [code, field, given, allowed]: the kind of the
\* rejection, the field it names, and for InvalidFieldValue the value given
\* (None or Some(value)) and the allowed list it quotes
NoError == [code |-> "None", field |-> "", given |-> None, allowed |-> << >>]

Err(code, field) == [code |-> code, field |-> field, given |-> None, allowed |-> << >>]

\* payment_methods.py:125
ErrValue(field, value, allowed) ==
  [code |-> "InvalidFieldValue", field |-> field, given |-> value, allowed |-> allowed]

Return(ok, e) == [exc |-> "", is_valid |-> ok, error |-> e]

Raise(e) == [exc |-> e, is_valid |-> FALSE, error |-> NoError]

Min(S) == CHOOSE x \in S : \A y \in S : x <= y

\* the `in` test of a list
InList(v, l) == \E i \in 1..Len(l) : l[i] = v

\* only the absence of the key is tested, not the emptiness of the value
FirstMissingAbsentOnly(required, fields) ==
  LET missing == {i \in 1..Len(required) : fields[required[i]] = None}
  IN IF missing = {} THEN 0 ELSE Min(missing)

\* payment_methods.py:110-112, the index of the first required field that
\* is absent or empty, 0 when there is none
FirstMissing(required, fields) ==
  LET missing == {i \in 1..Len(required) :
                    fields[required[i]] = None \/ fields[required[i]][1] = << >>}
  IN IF missing = {} THEN 0 ELSE Min(missing)

\* the value is compared with the first allowed value only
FirstDisallowedFirstOnly(allowed_values, fields) ==
  LET bad == {i \in 1..Len(allowed_values) :
                LET value == fields[allowed_values[i][1]]
                IN value = None \/ value[1] # allowed_values[i][2][1]}
  IN IF bad = {} THEN 0 ELSE Min(bad)

\* payment_methods.py:121-125, the index of the first allowed_values entry
\* whose field value (None when absent) is not in the allowed list
FirstDisallowed(allowed_values, fields) ==
  LET bad == {i \in 1..Len(allowed_values) :
                LET value == fields[allowed_values[i][1]]
                IN value = None \/ ~InList(value[1], allowed_values[i][2])}
  IN IF bad = {} THEN 0 ELSE Min(bad)

\* dict.get("last4", "")
GetLast4(fields) == IF fields.last4 = None THEN << >> ELSE fields.last4[1]

\* the membership test left out
MethodKnownUnchecked(payment_method) == TRUE

\* payment_methods.py:96, the registry membership test
MethodKnown(payment_method) == upper(payment_method) \in MethodKeys

\* payment_methods.py:99, the key the config is read under
ConfigKey(payment_method) == payment_method

\* the lower bound taken as exclusive
ModifierInRangeExclusive(config, price_modifier) ==
  config.min_modifier < price_modifier /\ price_modifier <= config.max_modifier

\* payment_methods.py:102
ModifierInRange(config, price_modifier) ==
  config.min_modifier <= price_modifier /\ price_modifier <= config.max_modifier

\* payment_methods.py:117
Last4Malformed(last4) == Len(last4) # 4 \/ ~isdigit(last4)

\* the required fields checked before the range of the modifier
validate_payment_fields_first(payment_method, price_modifier, additional_fields) ==
  IF ~MethodKnown(payment_method)
  THEN Return(FALSE, Err("UnknownMethod", ""))
  ELSE IF ConfigKey(payment_method) \notin MethodKeys
  THEN Raise("KeyError")
  ELSE
    LET config == PAYMENT_METHODS[ConfigKey(payment_method)]
        fields == IF additional_fields = None THEN EmptyDict ELSE additional_fields[1]
        m == FirstMissing(config.required_fields, fields)
        a == FirstDisallowed(config.allowed_values, fields)
    IN IF m # 0
       THEN Return(FALSE, Err("MissingRequiredField", config.required_fields[m]))
       ELSE IF ~ModifierInRange(config, price_modifier)
       THEN Return(FALSE, Err("ModifierOutOfRange", ""))
       ELSE IF InList("last4", config.required_fields) /\ Last4Malformed(GetLast4(fields))
       THEN Return(FALSE, Err("InvalidLast4Format", ""))
       ELSE IF a # 0
       THEN Return(FALSE, ErrValue(config.allowed_values[a][1],
                                   fields[config.allowed_values[a][1]],
                                   config.allowed_values[a][2]))
       ELSE Return(TRUE, NoError)

\* payment_methods.py:90-127; additional_fields is None or Some(dict)
validate_payment(payment_method, price_modifier, additional_fields) ==
  IF ~MethodKnown(payment_method)
  THEN Return(FALSE, Err("UnknownMethod", ""))
  ELSE IF ConfigKey(payment_method) \notin MethodKeys
  THEN Raise("KeyError")
  ELSE
    LET config == PAYMENT_METHODS[ConfigKey(payment_method)]
        fields == IF additional_fields = None THEN EmptyDict ELSE additional_fields[1]
        m == FirstMissing(config.required_fields, fields)
        a == FirstDisallowed(config.allowed_values, fields)
    IN IF ~ModifierInRange(config, price_modifier)
       THEN Return(FALSE, Err("ModifierOutOfRange", ""))
       ELSE IF m # 0
       THEN Return(FALSE, Err("MissingRequiredField", config.required_fields[m]))
       ELSE IF InList("last4", config.required_fields) /\ Last4Malformed(GetLast4(fields))
       THEN Return(FALSE, Err("InvalidLast4Format", ""))
       ELSE IF a # 0
       THEN Return(FALSE, ErrValue(config.allowed_values[a][1],
                                   fields[config.allowed_values[a][1]],
                                   config.allowed_values[a][2]))
       ELSE Return(TRUE, NoError)

(***************************************************************************)
(* Decimals (decimal.Decimal under the default context, whose rounding is  *)
(* ROUND_HALF_EVEN).  A Decimal is [kind, cents] with kind "finite",       *)
(* "NaN", "Infinity" or "-Infinity"; cents is meaningful when finite.      *)
(***************************************************************************)
Finite(c) == [kind |-> "finite", cents |-> c]

NaN == [kind |-> "NaN", cents |-> 0]

Infinity == [kind |-> "Infinity", cents |-> 0]

NegInfinity == [kind |-> "-Infinity", cents |-> 0]

\* the text that is not a decimal literal, e.g. "abc"
Malformed == [kind |-> "malformed", cents |-> 0]

Abs(x) == IF x < 0 THEN -x ELSE x

Sign(x) == IF x < 0 THEN -1 ELSE 1

\* rounding with ties away from zero (ROUND_HALF_UP)
RoundHalfUp(x) ==
  LET q == Abs(x) \div 100
      r == Abs(x) % 100
  IN Sign(x) * (IF r >= 50 THEN q + 1 ELSE q)

\* the rounding of Decimal.quantize under the default context: x is in
\* units of 0.0001, the result in units of 0.01, ties go to the even cent
RoundHalfEven(x) ==
  LET q == Abs(x) \div 100
      r == Abs(x) % 100
  IN Sign(x) * (IF r > 50 \/ (r = 50 /\ q % 2 = 1) THEN q + 1 ELSE q)

\* rounding to the nearest integer instead of truncating
IntOfNearest(x) == Sign(x) * ((Abs(x) + 5000) \div 10000)

\* int() of a Decimal given in units of 0.0001: truncation toward zero
IntOf(x) == Sign(x) * (Abs(x) \div 10000)

\* str() of a Decimal with exponent -2: integer part, two fraction digits
DecimalStr(c) == [neg |-> c < 0, int |-> Abs(c) \div 100, frac |-> Abs(c) % 100]

\* the sign of the price never tested
LessThanZeroNever(d) == "False"

\* schema.py:88, `price_decimal < 0`; "InvalidOperation" when it raises
LessThanZero(d) ==
  CASE d.kind = "NaN" -> "InvalidOperation"
    [] d.kind = "Infinity" -> "False"
    [] d.kind = "-Infinity" -> "True"
    [] OTHER -> IF d.cents < 0 THEN "True" ELSE "False"

\* payment_methods.py:138
FinalPriceOf(price_cents, price_modifier) == RoundHalfEven(price_cents * price_modifier)

\* payment_methods.py:139
PointsOf(price_cents, points_rate) == IntOf(price_cents * points_rate)

\* payment_methods.py:130-141; price is a Decimal that passed `< 0`
calculate_payment(payment_method, price, price_modifier) ==
  IF payment_method \notin MethodKeys
  THEN [exc |-> "KeyError", final_price |-> 0, points |-> 0]
  ELSE IF price.kind = "NaN"
  THEN [exc |-> "ValueError", final_price |-> 0, points |-> 0]
  ELSE IF price.kind # "finite"
  THEN [exc |-> "InvalidOperation", final_price |-> 0, points |-> 0]
  ELSE [exc |-> "",
        final_price |-> FinalPriceOf(price.cents, price_modifier),
        points |-> PointsOf(price.cents, PAYMENT_METHODS[payment_method].points_rate)]

(***************************************************************************)
(* Timestamps.  A datetime string is [fmt, t]: fmt is "Z" (ISO 8601 with   *)
(* the Z suffix), "naive" (ISO 8601 without offset) or "bad" (not ISO      *)
(* 8601); t is the time in minutes.                                        *)
(***************************************************************************)
\* dt.fromisoformat(s.replace("Z", "+00:00")); raises ValueError on "bad"
fromisoformat(s) ==
  IF s.fmt = "bad"
  THEN [exc |-> "ValueError", aware |-> FALSE, t |-> 0]
  ELSE [exc |-> "", aware |-> s.fmt = "Z", t |-> s.t]

\* date_trunc('hour', datetime)
date_trunc_hour(t) == (t \div 60) * 60

(***************************************************************************)
(* make_payment (schema.py:47-119).                                        *)
(***************************************************************************)
NoEntries == << >>

PaymentResponse(final_price, points) ==
  [tag |-> "PaymentResponse", final_price |-> Some(final_price), points |-> points,
   error |-> NoError, exc |-> "", entries |-> NoEntries]

ErrorResponse(e) ==
  [tag |-> "ErrorResponse", final_price |-> None, points |-> 0,
   error |-> e, exc |-> "", entries |-> NoEntries]

\* an exception that leaves the resolver
Uncaught(e) ==
  [tag |-> "Exception", final_price |-> None, points |-> 0,
   error |-> NoError, exc |-> e, entries |-> NoEntries]

\* no call has returned yet
NoOutcome ==
  [tag |-> "None", final_price |-> None, points |-> 0,
   error |-> NoError, exc |-> "", entries |-> NoEntries]

\* schema.py:116-119: ValueError becomes an ErrorResponse; any other
\* exception raised by the validation and pricing code leaves the resolver
Handle(e) ==
  IF e = "ValueError" THEN ErrorResponse(Err("ValueError", "")) ELSE Uncaught(e)

\* schema.py:69-79: None stays None, an input object becomes the dict of
\* its fields that are not None
ToDict(additional_item) ==
  IF additional_item = None
  THEN None
  ELSE Some([f \in FieldNames |->
               CASE f = "accountNumber" -> additional_item[1].account_number
                 [] f = "chequeNumber" -> additional_item[1].cheque_number
                 [] f = "last4" -> additional_item[1].last4
                 [] f = "courier" -> additional_item[1].courier
                 [] OTHER -> additional_item[1].bank])

\* schema.py:101-110
Payment(r, price_decimal, parsed, additional_dict, final_price, points) ==
  [customer_id |-> r.customer_id, price |-> price_decimal,
   price_modifier |-> r.price_modifier, final_price |-> final_price,
   points |-> points, payment_method |-> upper(r.payment_method),
   datetime |-> parsed.t, additional_item |-> additional_dict]

\* the row stays in the table although the commit failed
CommitKeepsRow(payment, dbOk) == <<payment>>

\* schema.py:100-112: the rows the session leaves in the table; a commit
\* that fails leaves none
Commit(payment, dbOk) == IF dbOk THEN <<payment>> ELSE << >>

\* a commit that fails is tried again
CommitAttemptsRetry(dbOk) == IF dbOk THEN 1 ELSE 2

\* schema.py:112: the number of session.commit() calls of one make_payment;
\* the call is not in a loop and the except clause (schema.py:118-119) returns
CommitAttempts(dbOk) == 1

\* the customer id never tested
CustomerMissingNever(customer_id) == FALSE

\* schema.py:84
CustomerMissing(customer_id) == customer_id = ""

\* a call that returns before it opens a session (schema.py:100)
Rejected(o) == [out |-> o, rows |-> << >>, sessions |-> 0, commits |-> 0]

\* schema.py:56-119.  r is the request, dbOk says whether session.commit()
\* succeeds.  The result is the outcome, the rows the call inserts, and the
\* numbers of sessions it opens and of commits it attempts.
make_payment(r, dbOk) ==
  LET parsed == fromisoformat(r.datetime)
      additional_dict == ToDict(r.additional_item)
      neg == LessThanZero(r.price)
      v == validate_payment(r.payment_method, r.price_modifier, additional_dict)
      c == calculate_payment(r.payment_method, r.price, r.price_modifier)
  IN IF r.price.kind = "malformed"
     THEN Rejected(ErrorResponse(Err("InvalidPriceFormat", "")))
     ELSE IF parsed.exc # ""
     THEN Rejected(ErrorResponse(Err("InvalidDatetime", "")))
     ELSE IF CustomerMissing(r.customer_id)
     THEN Rejected(ErrorResponse(Err("MissingCustomerId", "")))
     ELSE IF neg = "InvalidOperation"
     THEN Rejected(Handle("InvalidOperation"))
     ELSE IF neg = "True"
     THEN Rejected(ErrorResponse(Err("NegativePrice", "")))
     ELSE IF v.exc # ""
     THEN Rejected(Handle(v.exc))
     ELSE IF ~v.is_valid
     THEN Rejected(ErrorResponse(v.error))
     ELSE IF c.exc # ""
     THEN Rejected(Handle(c.exc))
     ELSE LET payment == Payment(r, r.price, parsed, additional_dict, c.final_price, c.points)
          IN IF ~dbOk
             THEN [out |-> ErrorResponse(Err("StorageError", "")),
                   rows |-> Commit(payment, dbOk),
                   sessions |-> 1, commits |-> CommitAttempts(dbOk)]
             ELSE [out |-> PaymentResponse(DecimalStr(c.final_price), c.points),
                   rows |-> Commit(payment, dbOk),
                   sessions |-> 1, commits |-> CommitAttempts(dbOk)]

(***************************************************************************)
(* sales_report (schema.py:125-164).                                       *)
(***************************************************************************)
RECURSIVE SumOf(_, _, _)
\* func.sum of column col over the rows with index in I
SumOf(rows, I, col) ==
  IF I = {} THEN 0
  ELSE LET i == CHOOSE j \in I : TRUE
       IN rows[i][col] + SumOf(rows, I \ {i}, col)

RECURSIVE Ascending(_)
\* order_by: the elements of a set of integers in ascending order
Ascending(S) ==
  IF S = {} THEN << >> ELSE <<Min(S)>> \o Ascending(S \ {Min(S)})

\* schema.py:26-29, 157-164
SalesEntry(bucket, sales, points) ==
  [datetime |-> bucket, sales |-> DecimalStr(sales), points |-> points]

\* the end of the range taken as exclusive
SalesQueryExclusiveEnd(rows, start, end) ==
  LET selected == {i \in 1..Len(rows) : rows[i].datetime >= start /\ rows[i].datetime < end}
      buckets == Ascending({date_trunc_hour(rows[i].datetime) : i \in selected})
      group(b) == {i \in selected : date_trunc_hour(rows[i].datetime) = b}
  IN [k \in 1..Len(buckets) |->
        SalesEntry(buckets[k], SumOf(rows, group(buckets[k]), "final_price"),
                   SumOf(rows, group(buckets[k]), "points"))]

\* schema.py:141-155: the rows of [start, end] grouped by hour
SalesQuery(rows, start, end) ==
  LET selected == {i \in 1..Len(rows) : rows[i].datetime >= start /\ rows[i].datetime <= end}
      buckets == Ascending({date_trunc_hour(rows[i].datetime) : i \in selected})
      group(b) == {i \in selected : date_trunc_hour(rows[i].datetime) = b}
  IN [k \in 1..Len(buckets) |->
        SalesEntry(buckets[k], SumOf(rows, group(buckets[k]), "final_price"),
                   SumOf(rows, group(buckets[k]), "points"))]

\* a query that fails: the exception leaves the resolver
QueryError(e) ==
  [tag |-> "Exception", final_price |-> None, points |-> 0,
   error |-> NoError, exc |-> e, entries |-> NoEntries]

SalesResult(entries) ==
  [tag |-> "SalesReport", final_price |-> None, points |-> 0,
   error |-> NoError, exc |-> "", entries |-> entries]

\* the session is opened before the arguments are checked
sales_report_session_first(start_datetime, end_datetime, rows, dbOk) ==
  LET start == fromisoformat(start_datetime)
      end == fromisoformat(end_datetime)
  IN IF ~dbOk
     THEN [out |-> QueryError("SQLAlchemyError"), sessions |-> 1]
     ELSE IF start.exc # "" \/ end.exc # ""
     THEN [out |-> QueryError("InvalidDatetimeFormat"), sessions |-> 1]
     ELSE IF start.aware # end.aware
     THEN [out |-> QueryError("TypeError"), sessions |-> 1]
     ELSE IF start.t > end.t
     THEN [out |-> QueryError("InvalidDateRangeOrder"), sessions |-> 1]
     ELSE [out |-> SalesResult(SalesQuery(rows, start.t, end.t)), sessions |-> 1]

\* schema.py:125-164.  dbOk says whether the session executes the query.
\* The result is the outcome and the number of sessions the call opens.
sales_report(start_datetime, end_datetime, rows, dbOk) ==
  LET start == fromisoformat(start_datetime)
      end == fromisoformat(end_datetime)
  IN IF start.exc # "" \/ end.exc # ""
     THEN [out |-> QueryError("InvalidDatetimeFormat"), sessions |-> 0]
     ELSE IF start.aware # end.aware
     THEN [out |-> QueryError("TypeError"), sessions |-> 0]
     ELSE IF start.t > end.t
     THEN [out |-> QueryError("InvalidDateRangeOrder"), sessions |-> 0]
     ELSE IF ~dbOk
     THEN [out |-> QueryError("SQLAlchemyError"), sessions |-> 1]
     ELSE [out |-> SalesResult(SalesQuery(rows, start.t, end.t)), sessions |-> 1]

(***************************************************************************)
(* Inputs.                                                                 *)
(***************************************************************************)
AdditionalItemInput(last4, courier, bank, account_number, cheque_number) ==
  [last4 |-> last4, courier |-> courier, bank |-> bank,
   account_number |-> account_number, cheque_number |-> cheque_number]

LowerCaseCodes ==
  {"cash", "cash_on_delivery", "visa", "mastercard", "amex", "jcb", "line_pay",
   "paypay", "points", "grab_pay", "bank_transfer", "cheque"}

MethodStrings == MethodKeys \cup LowerCaseCodes \cup {"Cash", "Visa", "BITCOIN", "bitcoin"}

LeastMinModifier == Min({PAYMENT_METHODS[k].min_modifier : k \in MethodKeys})

GreatestMaxModifier == -Min({-PAYMENT_METHODS[k].max_modifier : k \in MethodKeys})

Modifiers == (LeastMinModifier - ModMargin)..(GreatestMaxModifier + ModMargin)

\* cent amounts: the small ones, two that tie at half a cent under a
\* modifier, and the amounts of the tests
SampleCents == (-2..MaxSmallCents) \cup {15, 25, 9999, 10000}

PriceStrings == {Malformed, NaN, Infinity, NegInfinity} \cup {Finite(c) : c \in SampleCents}

CustomerIds == {"", "C001"}

Noon == [fmt |-> "Z", t |-> 720]

NotADate == [fmt |-> "bad", t |-> 0]

MUFG == <<"M", "U", "F", "G">>

Digits1234 == <<"1", "2", "3", "4">>

SampleItems ==
  {None,
   Some(AdditionalItemInput(None, None, None, None, None)),
   Some(AdditionalItemInput(Some(Digits1234), None, None, None, None)),
   Some(AdditionalItemInput(Some(<<"1", "2", "A", "B">>), None, None, None, None)),
   Some(AdditionalItemInput(Some(<< >>), None, None, None, None)),
   Some(AdditionalItemInput(None, Some(YAMATO), None, None, None)),
   Some(AdditionalItemInput(None, Some(UPS), None, None, None)),
   Some(AdditionalItemInput(None, None, Some(MUFG), Some(Digits1234), None)),
   Some(AdditionalItemInput(None, None, Some(MUFG), None, Some(Digits1234))),
   Some(AdditionalItemInput(None, None, Some(MUFG), None, None))}

Request(customer_id, price, price_modifier, payment_method, datetime, additional_item) ==
  [customer_id |-> customer_id, price |-> price, price_modifier |-> price_modifier,
   payment_method |-> payment_method, datetime |-> datetime,
   additional_item |-> additional_item]

(***************************************************************************)
(* Actions.                                                                *)
(***************************************************************************)
\* call describes the last call: the operation, the range asked of
\* sales_report, and how many sessions the call opened, how many commits it
\* attempted and how many storage operations failed in it
NoCall ==
  [op |-> "none", start |-> NotADate, end |-> NotADate,
   sessions |-> 0, commits |-> 0, failures |-> 0]

\* one make_payment call: the outcome goes to the caller, the rows to the
\* table, which holds at most MaxStore rows
MakePayment(r, dbOk) ==
  LET res == make_payment(r, dbOk)
  IN /\ Len(store) + Len(res.rows) <= MaxStore
     /\ out' = res.out
     /\ store' = store \o res.rows
     /\ call' = [op |-> "make_payment", start |-> NotADate, end |-> NotADate,
                 sessions |-> res.sessions, commits |-> res.commits,
                 failures |-> IF res.commits > 0 /\ ~dbOk THEN res.commits ELSE 0]
     /\ UNCHANGED <<req, procs>>

\* the call of the pending request
Call == out = NoOutcome /\ \E dbOk \in BOOLEAN : MakePayment(req, dbOk)

\* the pending request is any combination of the sample field values
InitCall ==
  /\ store = << >>
  /\ out = NoOutcome
  /\ call = NoCall
  /\ procs = << >>
  /\ \E c \in CustomerIds, p \in PriceStrings, m \in Modifiers, k \in MethodStrings,
        d \in {Noon, NotADate}, a \in SampleItems :
        req = Request(c, p, m, k, d, a)

NextCall == Call

SpecCall == InitCall /\ [][NextCall]_vars

(***************************************************************************)
(* validate_payment on its own.                                            *)
(***************************************************************************)
Last4Chars == {"1", "A", "sup2"}

RECURSIVE StringsUpTo(_, _)
\* the strings over the alphabet of length at most n
StringsUpTo(alphabet, n) ==
  IF n = 0 THEN {<< >>}
  ELSE LET shorter == StringsUpTo(alphabet, n - 1)
       IN shorter \cup {Append(s, c) : s \in shorter, c \in alphabet}

Opt(S) == {None} \cup {Some(v) : v \in S}

\* input objects that vary last4 over all short strings
Last4Items ==
  {Some(AdditionalItemInput(Some(s), None, None, None, None)) :
     s \in StringsUpTo(Last4Chars, MaxLast4Len)}

\* input objects that vary the presence and emptiness of every field
FieldItems ==
  {Some(AdditionalItemInput(l, c, b, a, q)) :
     l \in Opt({Digits1234}), c \in Opt({<< >>, YAMATO, SAGAWA, UPS}),
     b \in Opt({<< >>, MUFG}), a \in Opt({<< >>, Digits1234}),
     q \in Opt({<< >>, Digits1234})}

\* what validate_payment hands back to its caller
ValidateOutcome(v) ==
  [tag |-> IF v.exc # "" THEN "Exception" ELSE IF v.is_valid THEN "Valid" ELSE "Invalid",
   final_price |-> None, points |-> 0, error |-> v.error, exc |-> v.exc,
   entries |-> NoEntries]

\* one validate_payment call on the pending arguments
Validate ==
  /\ out = NoOutcome
  /\ out' = ValidateOutcome(validate_payment(req.payment_method, req.price_modifier,
                                             ToDict(req.additional_item)))
  /\ UNCHANGED <<store, req, call, procs>>

\* the pending arguments: every modifier with every combination of fields,
\* and every short last4 string with a modifier below every range and one
\* inside every range
InitValidate ==
  /\ store = << >>
  /\ out = NoOutcome
  /\ call = NoCall
  /\ procs = << >>
  /\ \E k \in MethodStrings :
        \/ \E m \in Modifiers, a \in {None} \cup FieldItems :
              req = Request("C001", Finite(10000), m, k, Noon, a)
        \/ \E m \in {LeastMinModifier - 1, 100}, a \in Last4Items :
              req = Request("C001", Finite(10000), m, k, Noon, a)

NextValidate == Validate

SpecValidate == InitValidate /\ [][NextValidate]_vars

(***************************************************************************)
(* The service: any sequence of make_payment and sales_report calls.       *)
(***************************************************************************)
HalfPastNoon == [fmt |-> "Z", t |-> 750]

TenPastOne == [fmt |-> "Z", t |-> 790]

\* a payment by card that succeeds
CardRequest ==
  Request("C001", Finite(9999), 100, "VISA", Noon,
          Some(AdditionalItemInput(Some(Digits1234), None, None, None, None)))

\* payments that succeed: three by cash, two of them in the same hour, and
\* one by card
BaseRequests ==
  {Request("C001", Finite(10000), 100, "CASH", d, None) :
     d \in {Noon, HalfPastNoon, TenPastOne}}
  \cup {CardRequest}

\* request r and the requests that differ from it in one field
Variants(r) ==
  {r,
   [r EXCEPT !.customer_id = ""],
   [r EXCEPT !.price = Malformed],
   [r EXCEPT !.price = Finite(-1)],
   [r EXCEPT !.price = NaN],
   [r EXCEPT !.price_modifier = GreatestMaxModifier + 1],
   [r EXCEPT !.payment_method = "cash"],
   [r EXCEPT !.payment_method = "BITCOIN"],
   [r EXCEPT !.datetime = NotADate]}

\* the card payment with other values of last4
Last4Variants ==
  {[CardRequest EXCEPT !.additional_item =
      Some(AdditionalItemInput(Some(l), None, None, None, None))] :
     l \in {<< >>, <<"1", "2", "A", "B">>, <<"1", "1", "1", "sup2">>}}

StoreRequests == UNION {Variants(r) : r \in BaseRequests} \cup Last4Variants

QueryDatetimes ==
  {[fmt |-> "Z", t |-> t] : t \in {720, 780, 840}}
  \cup {NotADate, [fmt |-> "naive", t |-> 720]}

\* one sales_report call
SalesReport(start_datetime, end_datetime, dbOk) ==
  LET res == sales_report(start_datetime, end_datetime, store, dbOk)
  IN /\ out' = res.out
     /\ call' = [op |-> "sales_report", start |-> start_datetime, end |-> end_datetime,
                 sessions |-> res.sessions, commits |-> 0,
                 failures |-> IF res.sessions > 0 /\ ~dbOk THEN 1 ELSE 0]
     /\ UNCHANGED <<store, req, procs>>

Init ==
  /\ store = << >>
  /\ req = Request("C001", Finite(25), 100, "CASH", Noon, None)
  /\ out = NoOutcome
  /\ call = NoCall
  /\ procs = << >>

Next ==
  \/ \E r \in StoreRequests, dbOk \in BOOLEAN : MakePayment(r, dbOk)
  \/ \E s \in QueryDatetimes, e \in QueryDatetimes, dbOk \in BOOLEAN :
        SalesReport(s, e, dbOk)

Spec == Init /\ [][Next]_vars

(***************************************************************************)
(* make_payment requests in flight together.  procs[p] is the request p:   *)
(* pc is its position (validate, price, insert, done), r its arguments,    *)
(* dbOk whether its commit succeeds, final_price and points the locals     *)
(* calculate_payment assigned, out what it returned, and overlapped        *)
(* whether another request was between its checks and its commit when     *)
(* this one started.                                                       *)
(***************************************************************************)
NumProcs == 2

Procs == 1..NumProcs

\* schema.py:56-94: the rejection the checks return, NoOutcome when the
\* request passes them all
Checks(r) ==
  LET parsed == fromisoformat(r.datetime)
      neg == LessThanZero(r.price)
      v == validate_payment(r.payment_method, r.price_modifier, ToDict(r.additional_item))
  IN IF r.price.kind = "malformed"
     THEN ErrorResponse(Err("InvalidPriceFormat", ""))
     ELSE IF parsed.exc # ""
     THEN ErrorResponse(Err("InvalidDatetime", ""))
     ELSE IF CustomerMissing(r.customer_id)
     THEN ErrorResponse(Err("MissingCustomerId", ""))
     ELSE IF neg = "InvalidOperation"
     THEN Handle("InvalidOperation")
     ELSE IF neg = "True"
     THEN ErrorResponse(Err("NegativePrice", ""))
     ELSE IF v.exc # ""
     THEN Handle(v.exc)
     ELSE IF ~v.is_valid
     THEN ErrorResponse(v.error)
     ELSE NoOutcome

\* the committed rows take the place of the rows of the table
InsertReplacing(table, rows) == IF rows = << >> THEN table ELSE rows

\* schema.py:111-112: the committed rows are added to the table
Insert(table, rows) == table \o rows

\* requests that are stored, and requests that end at each of the steps
ConcRequests ==
  {Request("C001", Finite(10000), 100, "CASH", Noon, None),
   Request("C002", Finite(10000), 100, "CASH", TenPastOne, None),
   CardRequest,
   Request("", Finite(10000), 100, "CASH", Noon, None),
   Request("C001", Finite(10000), 100, "cash", Noon, None),
   Request("C001", Infinity, 100, "CASH", Noon, None)}

Started(r, dbOk) ==
  [pc |-> "validate", r |-> r, dbOk |-> dbOk, final_price |-> 0, points |-> 0,
   out |-> NoOutcome, overlapped |-> FALSE]

\* schema.py:56-94 of request p
ValidateStep(p) ==
  /\ procs[p].pc = "validate"
  /\ LET o == Checks(procs[p].r)
     IN procs' = [procs EXCEPT ![p] =
                    [@ EXCEPT !.pc = IF o = NoOutcome THEN "price" ELSE "done",
                              !.out = o,
                              !.overlapped = \E q \in Procs \ {p} :
                                                procs[q].pc \in {"price", "insert"}]]
  /\ UNCHANGED <<store, req, out, call>>

\* schema.py:96-97 of request p
PriceStep(p) ==
  /\ procs[p].pc = "price"
  /\ LET c == calculate_payment(procs[p].r.payment_method, procs[p].r.price,
                                procs[p].r.price_modifier)
     IN procs' = [procs EXCEPT ![p] =
                    IF c.exc # ""
                    THEN [@ EXCEPT !.pc = "done", !.out = Handle(c.exc)]
                    ELSE [@ EXCEPT !.pc = "insert", !.final_price = c.final_price,
                                   !.points = c.points]]
  /\ UNCHANGED <<store, req, out, call>>

\* schema.py:99-119 of request p
InsertStep(p) ==
  /\ procs[p].pc = "insert"
  /\ LET r == procs[p].r
         payment == Payment(r, r.price, fromisoformat(r.datetime), ToDict(r.additional_item),
                            procs[p].final_price, procs[p].points)
     IN /\ store' = Insert(store, Commit(payment, procs[p].dbOk))
        /\ procs' = [procs EXCEPT ![p] =
                       [@ EXCEPT !.pc = "done",
                                 !.out = IF procs[p].dbOk
                                         THEN PaymentResponse(DecimalStr(procs[p].final_price),
                                                              procs[p].points)
                                         ELSE ErrorResponse(Err("StorageError", ""))]]
  /\ UNCHANGED <<req, out, call>>

InitConc ==
  /\ store = << >>
  /\ req = CardRequest
  /\ out = NoOutcome
  /\ call = NoCall
  /\ procs \in [Procs -> {Started(r, dbOk) : r \in ConcRequests, dbOk \in BOOLEAN}]

NextConc == \E p \in Procs : ValidateStep(p) \/ PriceStep(p) \/ InsertStep(p)

SpecConc == InitConc /\ [][NextConc]_vars

(***************************************************************************)
(* Properties.  In SpecCall and SpecValidate req is the request under test *)
(* and out is NoOutcome until the call has returned.                       *)
(***************************************************************************)
Returned == out # NoOutcome

\* the rule of the method a request names, for a request whose code
\* upper-cases to a registry key
RuleOf(r) == PAYMENT_METHODS[upper(r.payment_method)]

\* an additional item that satisfies the rule of method code k
ValidItemFor(k) ==
  CASE k \in {"VISA", "MASTERCARD", "AMEX", "JCB"} ->
         Some(AdditionalItemInput(Some(Digits1234), None, None, None, None))
    [] k = "CASH_ON_DELIVERY" ->
         Some(AdditionalItemInput(None, Some(YAMATO), None, None, None))
    [] k = "BANK_TRANSFER" ->
         Some(AdditionalItemInput(None, None, Some(MUFG), Some(Digits1234), None))
    [] k = "CHEQUE" ->
         Some(AdditionalItemInput(None, None, Some(MUFG), None, Some(Digits1234)))
    [] OTHER -> None

\* customer id, price and timestamp of the request under test are valid
BasicsValid ==
  /\ req.customer_id # ""
  /\ req.price.kind = "finite" /\ req.price.cents >= 0
  /\ req.datetime.fmt # "bad"

\* the request under test is valid but for its modifier, and names a registry key
ValidButModifier ==
  /\ BasicsValid
  /\ req.payment_method \in MethodKeys
  /\ req.additional_item = ValidItemFor(req.payment_method)

\* the call passed validation: it succeeded, or only the insert failed
Accepted == out.tag = "PaymentResponse" \/ out = ErrorResponse(Err("StorageError", ""))

\* the cents of the final price string a successful call returns
ReturnedCents == out.final_price[1].int * 100 + out.final_price[1].frac

\* C1: for every spelling of a registered method code, make_payment yields
\* the outcome (and writes the rows) it yields for the uppercase spelling
C1_CaseInsensitive ==
  (Returned /\ upper(req.payment_method) \in MethodKeys) =>
     \E dbOk \in BOOLEAN :
        LET res == make_payment([req EXCEPT !.payment_method = upper(req.payment_method)], dbOk)
        IN out = res.out /\ store = res.rows

\* C2: every make_payment call returns a PaymentResponse {finalPrice, points}
\* or an ErrorResponse {error}, never an uncaught exception
C2_TaggedOutcome ==
  Returned =>
     \/ out.tag = "PaymentResponse" /\ out.final_price # None /\ out.error = NoError
     \/ out.tag = "ErrorResponse" /\ out.final_price = None /\ out.error # NoError

C4_ModifierBounds ==
  (Returned /\ ValidButModifier) =>
     LET rule == PAYMENT_METHODS[req.payment_method]
     IN IF rule.min_modifier <= req.price_modifier /\ req.price_modifier <= rule.max_modifier
        THEN Accepted
        ELSE out = ErrorResponse(Err("ModifierOutOfRange", "")) /\ store = << >>

\* AMEX pays at its lower bound 0.98
C4_Witness ==
  /\ out.tag = "PaymentResponse"
  /\ req.payment_method = "AMEX"
  /\ req.price_modifier = PAYMENT_METHODS["AMEX"].min_modifier
  /\ ValidButModifier

NegativePrice ==
  \/ req.price.kind = "-Infinity"
  \/ req.price.kind = "finite" /\ req.price.cents < 0

\* C7: a request with a negative price is rejected with an ErrorResponse and
\* nothing is stored, whatever the method and the other fields
C7_NegativeRejected ==
  (Returned /\ NegativePrice) => (out.tag = "ErrorResponse" /\ store = << >>)

\* a negative price is rejected in a request that is valid otherwise
C7_Witness ==
  /\ out = ErrorResponse(Err("NegativePrice", ""))
  /\ req.price = Finite(-1)
  /\ req.payment_method = "CASH" /\ req.price_modifier = 100
  /\ req.customer_id # "" /\ req.datetime.fmt # "bad"

\* C8: a step appends exactly one record, the one of the response, when it
\* is a make_payment call that returns a PaymentResponse; every other step
\* (a rejected or failed make_payment, a sales_report) leaves the store as
\* it is; no step changes or removes a record already stored
C8_AppendOnSuccessOnly ==
  [][\/ /\ out'.tag = "PaymentResponse"
        /\ Len(store') = Len(store) + 1
        /\ SubSeq(store', 1, Len(store)) = store
        /\ DecimalStr(store'[Len(store')].final_price) = out'.final_price[1]
        /\ store'[Len(store')].points = out'.points
     \/ /\ out'.tag # "PaymentResponse"
        /\ store' = store]_vars

\* a make_payment call was rejected after two payments were stored
C8_Witness ==
  /\ Len(store) = 2
  /\ out.tag = "ErrorResponse"
  /\ store[1] # store[2]

\* the value the input object of the request under test gives a registry field
ItemField(f) ==
  IF req.additional_item = None THEN None
  ELSE CASE f = "accountNumber" -> req.additional_item[1].account_number
         [] f = "chequeNumber" -> req.additional_item[1].cheque_number
         [] f = "last4" -> req.additional_item[1].last4
         [] f = "courier" -> req.additional_item[1].courier
         [] OTHER -> req.additional_item[1].bank

\* field f is absent from the additional fields or has the empty value
Lacks(f) == ItemField(f) = None \/ ItemField(f) = Some(<< >>)

\* the modifier of the request under test is in the range of its method,
\* which is a registry key
InRangeOfKey ==
  /\ req.payment_method \in MethodKeys
  /\ PAYMENT_METHODS[req.payment_method].min_modifier <= req.price_modifier
  /\ req.price_modifier <= PAYMENT_METHODS[req.payment_method].max_modifier

\* C9: for a registered method and an in-range modifier, if a required field
\* is absent or empty, validate_payment rejects with MissingRequiredField
\* naming the first such field in the order of required_fields
C9_FirstMissingField ==
  (Returned /\ InRangeOfKey) =>
     LET required == PAYMENT_METHODS[req.payment_method].required_fields
     IN \A i \in 1..Len(required) :
          (Lacks(required[i]) /\ \A j \in 1..(i - 1) : ~Lacks(required[j]))
          => (out.tag = "Invalid" /\ out.error = Err("MissingRequiredField", required[i]))

\* BANK_TRANSFER with a bank and an empty accountNumber names accountNumber
C9_Witness ==
  /\ out.error = Err("MissingRequiredField", "accountNumber")
  /\ req.payment_method = "BANK_TRANSFER"
  /\ ItemField("bank") = Some(MUFG)
  /\ ItemField("accountNumber") = Some(<< >>)

\* C10: for a method that requires last4, with an in-range modifier and a
\* present non-empty last4, validate_payment accepts only if last4 is four
\* characters that are all decimal digits, and rejects every other value
\* with InvalidLast4Format
C10_Last4FourDecimalDigits ==
  (/\ Returned /\ InRangeOfKey
   /\ InList("last4", PAYMENT_METHODS[req.payment_method].required_fields)
   /\ ~Lacks("last4"))
  => LET last4 == ItemField("last4")[1]
     IN IF Len(last4) = 4 /\ \A i \in 1..4 : last4[i] \in AsciiDigits
        THEN out.tag = "Valid"
        ELSE out.tag = "Invalid" /\ out.error = Err("InvalidLast4Format", "")

\* the request under test passes the checks that precede the allowed values:
\* a registry key, a modifier in range, and every required field but
\* `except` present, not empty and, for last4, four digits
PassesUpTo(except) ==
  /\ InRangeOfKey
  /\ LET required == PAYMENT_METHODS[req.payment_method].required_fields
     IN \A i \in 1..Len(required) :
          required[i] # except =>
            /\ ~Lacks(required[i])
            /\ required[i] = "last4" => ItemField("last4") = Some(Digits1234)

\* C11: with the rest of the request valid, a field with an allowed_values
\* list that is given a value is accepted if the value is in the list, and is
\* otherwise rejected with InvalidFieldValue naming the field, the value
\* given and the allowed list; when no value or the empty value is given,
\* the earlier check of the required fields rejects with MissingRequiredField
C11_AllowedValues ==
  Returned =>
     \A k \in MethodKeys :
       \A i \in 1..Len(PAYMENT_METHODS[k].allowed_values) :
         LET f == PAYMENT_METHODS[k].allowed_values[i][1]
             allowed == PAYMENT_METHODS[k].allowed_values[i][2]
         IN (req.payment_method = k /\ PassesUpTo(f)) =>
              IF Lacks(f)
              THEN out.tag = "Invalid" /\ out.error = Err("MissingRequiredField", f)
              ELSE IF InList(ItemField(f)[1], allowed)
              THEN out.tag = "Valid"
              ELSE out.tag = "Invalid" /\ out.error = ErrValue(f, ItemField(f), allowed)

\* CASH_ON_DELIVERY with courier UPS is rejected, naming courier, UPS and
\* the two couriers allowed
C11_Witness ==
  /\ req.payment_method = "CASH_ON_DELIVERY"
  /\ out.tag = "Invalid"
  /\ out.error = ErrValue("courier", Some(UPS), <<YAMATO, SAGAWA>>)

\* the last call was a sales_report whose two timestamps parse and are both
\* with or both without an offset
ComparableRange ==
  /\ call.op = "sales_report"
  /\ call.start.fmt # "bad" /\ call.end.fmt # "bad"
  /\ call.start.fmt = call.end.fmt

\* the start of the hour of time t
HourOf(t) == t - (t % 60)

\* row i of the store lies in the range asked and in the hour that starts at b
Counted(i, b) ==
  /\ call.start.t <= store[i].datetime /\ store[i].datetime <= call.end.t
  /\ HourOf(store[i].datetime) = b

RECURSIVE TotalUpTo(_, _, _)
\* the total of column col over the rows 1..n counted for hour b
TotalUpTo(n, b, col) ==
  IF n = 0 THEN 0
  ELSE TotalUpTo(n - 1, b, col) + (IF Counted(n, b) THEN store[n][col] ELSE 0)

\* C12: a sales_report over a range with start <= end, the storage working,
\* returns the hours that hold a record of the inclusive range, each once and
\* in ascending order, each with the totals of final_price and points of the
\* records of the range in that hour; it is the empty list when there is none
C12_HourlyTotals ==
  (ComparableRange /\ call.start.t <= call.end.t /\ call.failures = 0) =>
     /\ out.tag = "SalesReport"
     /\ \A k \in 1..(Len(out.entries) - 1) :
          out.entries[k].datetime < out.entries[k + 1].datetime
     /\ {out.entries[k].datetime : k \in 1..Len(out.entries)}
          = {HourOf(store[i].datetime) :
               i \in {j \in 1..Len(store) : Counted(j, HourOf(store[j].datetime))}}
     /\ \A k \in 1..Len(out.entries) :
          LET b == out.entries[k].datetime
              sales == TotalUpTo(Len(store), b, "final_price")
          IN /\ out.entries[k].sales.int * 100 + out.entries[k].sales.frac = sales
             /\ ~out.entries[k].sales.neg
             /\ out.entries[k].points = TotalUpTo(Len(store), b, "points")

\* two payments of the same hour, made at different times, are reported as
\* one entry that holds the sum of their points
C12_Witness ==
  /\ ComparableRange /\ call.failures = 0
  /\ Len(store) = 2 /\ store[1].datetime # store[2].datetime
  /\ Len(out.entries) = 1
  /\ out.entries[1].points = store[1].points + store[2].points
  /\ out.entries[1].points > 0

\* C13: a sales_report whose start or end does not parse fails with
\* InvalidDatetimeFormat, one with start > end fails with
\* InvalidDateRangeOrder, both before a session is opened; start = end is not
\* rejected; a start with an offset and an end without one (or the reverse)
\* cannot be compared and fails as well before a session is opened
C13_RangeErrorsBeforeStorage ==
  call.op = "sales_report" =>
     /\ (call.start.fmt = "bad" \/ call.end.fmt = "bad") =>
          (out = QueryError("InvalidDatetimeFormat") /\ call.sessions = 0)
     /\ (ComparableRange /\ call.start.t > call.end.t) =>
          (out = QueryError("InvalidDateRangeOrder") /\ call.sessions = 0)
     /\ (ComparableRange /\ call.start.t = call.end.t) =>
          /\ out.exc \notin {"InvalidDateRangeOrder", "InvalidDatetimeFormat"}
          /\ call.sessions = 1
          /\ call.failures = 0 => out.tag = "SalesReport"
     /\ (call.start.fmt # "bad" /\ call.end.fmt # "bad" /\ ~ComparableRange) =>
          (out.tag = "Exception" /\ call.sessions = 0)

\* a range that ends before it starts is refused while the store holds rows
C13_Witness ==
  /\ call.op = "sales_report"
  /\ call.start.fmt = "Z" /\ call.end.fmt = "Z" /\ call.start.t > call.end.t
  /\ out = QueryError("InvalidDateRangeOrder")
  /\ Len(store) > 0

\* C14: a make_payment call whose commit fails returns the storage error,
\* has attempted one commit and leaves the store as it was
C14_InsertFailureOnce ==
  [][(call'.op = "make_payment" /\ call'.failures > 0) =>
       /\ out' = ErrorResponse(Err("StorageError", ""))
       /\ call'.sessions = 1 /\ call'.commits = 1 /\ call'.failures = 1
       /\ store' = store]_vars

\* the commit of a payment failed after another payment was stored
C14_Witness ==
  /\ call.op = "make_payment" /\ call.failures = 1
  /\ out = ErrorResponse(Err("StorageError", ""))
  /\ Len(store) = 1

\* the request under test names a registered method, has a price that
\* parses and an empty customer id
EmptyCustomerCase ==
  /\ Returned
  /\ upper(req.payment_method) \in MethodKeys
  /\ req.price.kind # "malformed"
  /\ req.customer_id = ""

\* C16 as stated: a request with a registered method, a price that parses
\* and an empty customer id is rejected with MissingCustomerId whatever its
\* timestamp, modifier and additional fields are
C16_CustomerIdFirst ==
  EmptyCustomerCase => out = ErrorResponse(Err("MissingCustomerId", ""))

\* C16 amended: such a request is rejected with InvalidDatetime when its
\* timestamp does not parse, and otherwise with MissingCustomerId whatever
\* the sign of its price, its modifier and its additional fields are;
\* nothing is stored
C16_CustomerIdAfterTimestamp ==
  EmptyCustomerCase =>
     /\ store = << >>
     /\ IF req.datetime.fmt = "bad"
        THEN out = ErrorResponse(Err("InvalidDatetime", ""))
        ELSE out = ErrorResponse(Err("MissingCustomerId", ""))

\* the empty customer id is reported although the modifier is above the
\* range of VISA and last4 is missing
C16_Witness ==
  /\ EmptyCustomerCase
  /\ out = ErrorResponse(Err("MissingCustomerId", ""))
  /\ req.payment_method = "VISA"
  /\ req.price_modifier > PAYMENT_METHODS["VISA"].max_modifier
  /\ req.additional_item = None

\* some required field of the method of the request under test is absent
\* or empty
SomeRequiredLacking ==
  \E i \in 1..Len(PAYMENT_METHODS[req.payment_method].required_fields) :
     Lacks(PAYMENT_METHODS[req.payment_method].required_fields[i])

\* last4 is required, given and not empty, and is not four characters or
\* holds a character that is no digit of any script
Last4Bad ==
  /\ InList("last4", PAYMENT_METHODS[req.payment_method].required_fields)
  /\ ~Lacks("last4")
  /\ \/ Len(ItemField("last4")[1]) # 4
     \/ \E i \in 1..Len(ItemField("last4")[1]) :
           ItemField("last4")[1][i] \notin (AsciiDigits \cup OtherDigits)

\* some enumerated field is given a value outside its list
SomeValueDisallowed ==
  \E i \in 1..Len(PAYMENT_METHODS[req.payment_method].allowed_values) :
     LET f == PAYMENT_METHODS[req.payment_method].allowed_values[i][1]
     IN ~Lacks(f) /\ ~InList(ItemField(f)[1],
                            PAYMENT_METHODS[req.payment_method].allowed_values[i][2])

\* C17: for a registry key, validate_payment reports the earliest failing
\* check in the order modifier range, required fields, last4 format,
\* allowed values: a modifier out of range gives ModifierOutOfRange whatever
\* the fields are, and with the modifier in range an absent or empty
\* required field gives MissingRequiredField whatever the other fields are
C17_EarliestFailingCheck ==
  (Returned /\ req.payment_method \in MethodKeys) =>
     /\ ~InRangeOfKey => (out.tag = "Invalid" /\ out.error = Err("ModifierOutOfRange", ""))
     /\ (InRangeOfKey /\ SomeRequiredLacking) =>
          (out.tag = "Invalid" /\ out.error.code = "MissingRequiredField")
     /\ (InRangeOfKey /\ ~SomeRequiredLacking /\ Last4Bad) =>
          (out.tag = "Invalid" /\ out.error = Err("InvalidLast4Format", ""))
     /\ (InRangeOfKey /\ ~SomeRequiredLacking /\ ~Last4Bad /\ SomeValueDisallowed) =>
          (out.tag = "Invalid" /\ out.error.code = "InvalidFieldValue")

\* CASH_ON_DELIVERY with a modifier out of range and an empty courier is
\* rejected for its modifier
C17_Witness ==
  /\ Returned
  /\ req.payment_method = "CASH_ON_DELIVERY"
  /\ ~InRangeOfKey
  /\ ItemField("courier") = Some(<< >>)
  /\ out.error = Err("ModifierOutOfRange", "")

\* the value row gives field f in its additional_item, None when it has none
RowField(row, f) ==
  IF row.additional_item = None THEN None ELSE row.additional_item[1][f]

\* row satisfies the rule of its own method
SatisfiesOwnRule(row) ==
  /\ row.payment_method \in MethodKeys
  /\ row.customer_id # ""
  /\ row.price.kind = "finite" /\ row.price.cents >= 0
  /\ LET config == PAYMENT_METHODS[row.payment_method]
     IN /\ config.min_modifier <= row.price_modifier
        /\ row.price_modifier <= config.max_modifier
        /\ \A i \in 1..Len(config.required_fields) :
             /\ RowField(row, config.required_fields[i]) # None
             /\ RowField(row, config.required_fields[i]) # Some(<< >>)
        /\ InList("last4", config.required_fields) =>
             /\ Len(RowField(row, "last4")[1]) = 4
             /\ \A j \in 1..4 : RowField(row, "last4")[1][j] \in AsciiDigits
        /\ \A i \in 1..Len(config.allowed_values) :
             InList(RowField(row, config.allowed_values[i][1])[1],
                    config.allowed_values[i][2])

\* C18: every record of the store satisfies the rule of its own method:
\* an uppercase registry key, a customer id that is not empty, a price >= 0,
\* a modifier within the range of the method, every required field present
\* and not empty, a last4 (when required) of four decimal digits, and every
\* enumerated field with an allowed value
C18_RecordsSatisfyOwnRule ==
  \A i \in 1..Len(store) : SatisfiesOwnRule(store[i])

\* every request in flight has returned
AllDone == procs # << >> /\ \A p \in DOMAIN procs : procs[p].pc = "done"

\* what request p yields when it is the only request
Alone(p) == make_payment(procs[p].r, procs[p].dbOk)

\* the orders in which the requests can be made one after the other
Orders == {o \in [Procs -> Procs] : \A i, j \in Procs : o[i] = o[j] => i = j}

RECURSIVE SequentialStore(_, _)
\* the table after the first n requests of order o were made one by one
SequentialStore(o, n) ==
  IF n = 0 THEN << >> ELSE SequentialStore(o, n - 1) \o Alone(o[n]).rows

\* how many times row occurs in table
Count(row, table) == Cardinality({i \in 1..Len(table) : table[i] = row})

\* two tables hold the same rows the same number of times
SameRecords(a, b) ==
  /\ Len(a) = Len(b)
  /\ \A i \in 1..Len(a) : Count(a[i], a) = Count(a[i], b)

\* C15: under every interleaving of the check, pricing and insert steps of
\* the requests, a request that has returned has the result it yields
\* alone, and when all have returned the store holds the same records as
\* after any sequential order of the requests and every sales_report gives
\* the same result as after that order
C15_IndependentCommutative ==
  /\ \A p \in DOMAIN procs : procs[p].pc = "done" => procs[p].out = Alone(p).out
  /\ AllDone =>
       \A o \in Orders :
          /\ SameRecords(store, SequentialStore(o, NumProcs))
          /\ \A s \in QueryDatetimes, e \in QueryDatetimes :
                sales_report(s, e, store, TRUE).out
                  = sales_report(s, e, SequentialStore(o, NumProcs), TRUE).out

\* request 2 started while request 1 was in flight and committed first; the
\* two records differ
C15_Witness ==
  /\ AllDone
  /\ procs[2].overlapped
  /\ Len(store) = 2 /\ store[1] # store[2]
  /\ <<store[1]>> = Alone(2).rows
  /\ <<store[2]>> = Alone(1).rows

====
